---- MODULE Spec2Model ----
(***************************************************************************)
(* Model of scripts/sync-python.py: the pipeline of main() (read the pip   *)
(* freeze listing, load pyproject.toml, categorize, report, snapshot,      *)
(* exit) as a state machine, with the string functions it is built from   *)
(* as operators.  A Python str is a sequence of one-character strings.    *)
(***************************************************************************)
EXTENDS Integers, Sequences, FiniteSets, TLC

VARIABLES
    freeze_ok,        \* args.freeze can be opened
    freeze_lines,     \* the lines of the file args.freeze
    pyproject_ok,     \* args.pyproject can be opened
    pyproject,        \* the parsed manifest: the three dependency lists
    arg_output,       \* --output was given
    output_ok,        \* args.output can be written
    arg_skip,         \* --skip-transitive-check was given
    pc,               \* position of main()
    line_no,          \* next line of the listing to parse
    installed,        \* dict name -> version, in insertion order
    declared,         \* result of get_declared_packages
    cat_no,           \* next item of installed.items() to categorize
    categories,       \* the five buckets of categorize_packages
    opened,           \* the files main() has tried to open, in order
    pip_calls,        \* the packages "pip show" was run for, in order
    last_outcome,     \* what the last "pip show" did
    last_required_by, \* what get_required_by returned for it
    all_failed,       \* every "pip show" so far has failed
    stdout,           \* what was printed
    snapshot_file,    \* the content of args.output, once written
    exit_status,      \* the status the process ended with
    raised            \* the call whose exception ended the run, if any

vars == <<freeze_ok, freeze_lines, pyproject_ok, pyproject, arg_output, arg_skip,
          pc, line_no, installed, declared, cat_no, categories, opened,
          pip_calls, last_outcome, last_required_by, all_failed, stdout,
          snapshot_file, exit_status, output_ok, raised>>

(***************************************************************************)
(* Bounds of the input families.                                           *)
(***************************************************************************)
MaxLines == 3
MaxDeps == 3
MaxNameLen == 4

(***************************************************************************)
(* Characters and str methods.                                             *)
(***************************************************************************)
Ord(c) ==
    CASE c = "\t" -> 9 [] c = "\n" -> 10 [] c = " " -> 32 [] c = "\"" -> 34 [] c = "#" -> 35 [] c = "," -> 44
      [] c = "-" -> 45 [] c = "." -> 46 [] c = "/" -> 47
      [] c = "1" -> 49 [] c = "2" -> 50 [] c = "3" -> 51
      [] c = ":" -> 58 [] c = "<" -> 60 [] c = "=" -> 61 [] c = ">" -> 62
      [] c = "A" -> 65 [] c = "B" -> 66 [] c = "C" -> 67 [] c = "N" -> 78
      [] c = "R" -> 82
      [] c = "[" -> 91 [] c = "]" -> 93 [] c = "_" -> 95
      [] c = "a" -> 97 [] c = "b" -> 98 [] c = "c" -> 99 [] c = "d" -> 100
      [] c = "e" -> 101 [] c = "i" -> 105 [] c = "m" -> 109 [] c = "n" -> 110
      [] c = "q" -> 113
      [] c = "r" -> 114 [] c = "u" -> 117 [] c = "x" -> 120 [] c = "y" -> 121

LowerChar(c) ==
    CASE c = "A" -> "a" [] c = "B" -> "b" [] c = "C" -> "c" [] c = "N" -> "n"
      [] c = "R" -> "r" [] OTHER -> c

lower(s) == [i \in 1..Len(s) |-> LowerChar(s[i])]

IsSpace(c) == c \in {" ", "\n", "\t"}

RECURSIVE lstrip(_)
lstrip(s) == IF s # <<>> /\ IsSpace(Head(s)) THEN lstrip(Tail(s)) ELSE s

RECURSIVE rstrip(_)
rstrip(s) ==
    IF s # <<>> /\ IsSpace(s[Len(s)]) THEN rstrip(SubSeq(s, 1, Len(s) - 1)) ELSE s

strip(s) == rstrip(lstrip(s))

startswith(s, p) == Len(s) >= Len(p) /\ SubSeq(s, 1, Len(p)) = p

\* str.find: the first index (from 1) where p occurs in s, 0 when it does not.
find(s, p) ==
    LET hits == {i \in 1..(Len(s) - Len(p) + 1) : SubSeq(s, i, i + Len(p) - 1) = p}
    IN IF hits = {} THEN 0 ELSE CHOOSE i \in hits : \A j \in hits : i <= j

\* s.split(sep, 1)
split1(s, sep) ==
    LET i == find(s, sep)
    IN IF i = 0 THEN <<s>>
       ELSE <<SubSeq(s, 1, i - 1), SubSeq(s, i + Len(sep), Len(s))>>

\* s.split(sep)
RECURSIVE split(_, _)
split(s, sep) ==
    LET i == find(s, sep)
    IN IF i = 0 THEN <<s>>
       ELSE <<SubSeq(s, 1, i - 1)>> \o split(SubSeq(s, i + Len(sep), Len(s)), sep)

\* s < t for str: code points, left to right, a proper prefix first.
RECURSIVE StrLess(_, _)
StrLess(s, t) ==
    IF t = <<>> THEN FALSE
    ELSE IF s = <<>> THEN TRUE
    ELSE IF Ord(Head(s)) # Ord(Head(t)) THEN Ord(Head(s)) < Ord(Head(t))
    ELSE StrLess(Tail(s), Tail(t))

(***************************************************************************)
(* normalize_package_name, parse_requirement, parse_freeze_line.           *)
(***************************************************************************)
IsSeparator(c) == c \in {"-", "_", "."}

RECURSIVE SkipSeparators(_)
SkipSeparators(s) ==
    IF s # <<>> /\ IsSeparator(Head(s)) THEN SkipSeparators(Tail(s)) ELSE s

\* re.sub(r"[-_.]+", "-", name)
RECURSIVE CollapseSeparators(_)
CollapseSeparators(s) ==
    IF s = <<>> THEN <<>>
    ELSE IF IsSeparator(Head(s))
         THEN <<"-">> \o CollapseSeparators(SkipSeparators(Tail(s)))
         ELSE <<Head(s)>> \o CollapseSeparators(Tail(s))

normalize_package_name(name) == lower(CollapseSeparators(name))

\* re.sub(r"\[.*?\]", "", req): every "[" with a "]" after it goes, up to the
\* nearest such "]"; a "[" that is never closed stays.
RECURSIVE RemoveExtras(_)
RemoveExtras(req) ==
    LET i == find(req, <<"[">>)
        rest == SubSeq(req, i + 1, Len(req))
        j == find(rest, <<"]">>)
    IN IF i = 0 \/ j = 0 THEN req
       ELSE SubSeq(req, 1, i - 1) \o RemoveExtras(SubSeq(rest, j + 1, Len(rest)))

\* the class [a-zA-Z0-9_-]
IsNameChar(c) == Ord(c) \in (48..57) \cup (65..90) \cup (97..122) \cup {95, 45}

\* re.match(r"^([a-zA-Z0-9_-]+)", s).group(1), <<>> when there is no match
RECURSIVE LeadingName(_)
LeadingName(s) ==
    IF s # <<>> /\ IsNameChar(Head(s)) THEN <<Head(s)>> \o LeadingName(Tail(s))
    ELSE <<>>

parse_requirement(req) ==
    LET name == LeadingName(strip(RemoveExtras(req)))
    IN IF name # <<>> THEN normalize_package_name(name) ELSE <<>>

\* The result None is [ok |-> FALSE]; a tuple (name, version) has ok = TRUE.
NoParse == [ok |-> FALSE, name |-> <<>>, version |-> <<>>]

\* Mutant of parse_freeze_line: lines that start with "-" are not skipped.
parse_freeze_line_keep_dash(raw) ==
    LET line == strip(raw)
    IN IF line = <<>> \/ startswith(line, <<"#">>)
       THEN NoParse
       ELSE IF find(line, <<"=", "=">>) # 0
            THEN LET parts == split1(line, <<"=", "=">>)
                 IN [ok |-> TRUE, name |-> normalize_package_name(parts[1]),
                     version |-> parts[2]]
            ELSE NoParse

parse_freeze_line(raw) ==
    LET line == strip(raw)
    IN IF line = <<>> \/ startswith(line, <<"#">>) \/ startswith(line, <<"-">>)
       THEN NoParse
       ELSE IF find(line, <<"=", "=">>) # 0
            THEN LET parts == split1(line, <<"=", "=">>)
                 IN [ok |-> TRUE, name |-> normalize_package_name(parts[1]),
                     version |-> parts[2]]
            ELSE NoParse

(***************************************************************************)
(* dict: a sequence of [name, version] with distinct names, in insertion   *)
(* order (d[k] = v keeps the place of a key that is already there).        *)
(***************************************************************************)
Keys(d) == {d[i].name : i \in 1..Len(d)}

Items(d) == {d[i] : i \in 1..Len(d)}

DictSet(d, k, v) ==
    IF k \in Keys(d)
    THEN [i \in 1..Len(d) |-> IF d[i].name = k THEN [name |-> k, version |-> v] ELSE d[i]]
    ELSE Append(d, [name |-> k, version |-> v])

ItemLess(x, y) ==
    \/ StrLess(x.name, y.name)
    \/ x.name = y.name /\ StrLess(x.version, y.version)

\* sorted(d.items()): the items as (name, version) tuples in ascending order
RECURSIVE SortItems(_)
SortItems(S) ==
    IF S = {} THEN <<>>
    ELSE LET least == CHOOSE x \in S : \A y \in S \ {x} : ItemLess(x, y)
         IN <<least>> \o SortItems(S \ {least})

sorted(d) == SortItems(Items(d))

(***************************************************************************)
(* get_declared_packages: the names of a list of requirement strings,      *)
(* without the entries that yield no name.                                 *)
(***************************************************************************)
\* Mutant of DeclaredNames: the test "if name" is missing.
DeclaredNames_keep_empty(deps) ==
    {parse_requirement(deps[i]) : i \in 1..Len(deps)}

DeclaredNames(deps) ==
    {parse_requirement(deps[i]) : i \in 1..Len(deps)} \ {<<>>}

get_declared_packages(project) ==
    [core |-> DeclaredNames(project.dependencies),
     gpu |-> DeclaredNames(project.gpu),
     staged |-> DeclaredNames(project.staged)]

(***************************************************************************)
(* get_required_by: "pip show" either times out, raises, or ends with a    *)
(* return code and an output (here already split into lines).              *)
(***************************************************************************)
RequiredByPrefix == <<"R", "e", "q", "u", "i", "r", "e", "d", "-", "b", "y", ":">>

\* Mutant of get_required_by: the return code is not tested.
get_required_by_any_returncode(outcome) ==
    IF outcome.kind \in {"timeout", "raise"} THEN <<>>
    ELSE LET hits == {i \in 1..Len(outcome.stdout) :
                         startswith(outcome.stdout[i], RequiredByPrefix)}
         IN IF hits = {} THEN <<>>
            ELSE LET first == CHOOSE i \in hits : \A j \in hits : i <= j
                     deps == strip(split1(outcome.stdout[first], <<":">>)[2])
                     parts == split(deps, <<",">>)
                 IN IF deps # <<>>
                    THEN [i \in 1..Len(parts) |-> strip(parts[i])]
                    ELSE <<>>

get_required_by(outcome) ==
    IF outcome.kind \in {"timeout", "raise"} THEN <<>>
    ELSE IF outcome.returncode # 0 THEN <<>>
    ELSE LET hits == {i \in 1..Len(outcome.stdout) :
                         startswith(outcome.stdout[i], RequiredByPrefix)}
         IN IF hits = {} THEN <<>>
            ELSE LET first == CHOOSE i \in hits : \A j \in hits : i <= j
                     deps == strip(split1(outcome.stdout[first], <<":">>)[2])
                     parts == split(deps, <<",">>)
                 IN IF deps # <<>>
                    THEN [i \in 1..Len(parts) |-> strip(parts[i])]
                    ELSE <<>>

(***************************************************************************)
(* categorize_packages, one iteration of its loop.                         *)
(***************************************************************************)
NoCategories ==
    [core |-> <<>>, gpu |-> <<>>, staged |-> <<>>, staged_new |-> <<>>,
     transitive |-> <<>>]

\* Mutant of NeedsQuery: the query is made before the declared sets are tested.
NeedsQuery_hoisted(pkg, decl, check_transitive) == check_transitive

\* The loop queries pip only on the branch "elif check_transitive".
NeedsQuery(pkg, decl, check_transitive) ==
    LET normalized == normalize_package_name(pkg)
    IN /\ normalized \notin decl.core
       /\ normalized \notin decl.gpu
       /\ normalized \notin decl.staged
       /\ check_transitive

\* Mutant of Bucket: the gpu set is tested before the core set.
Bucket_gpu_first(pkg, decl, check_transitive, required_by) ==
    LET normalized == normalize_package_name(pkg)
    IN IF normalized \in decl.gpu THEN "gpu"
       ELSE IF normalized \in decl.core THEN "core"
       ELSE IF normalized \in decl.staged THEN "staged"
       ELSE IF check_transitive
            THEN IF required_by # <<>> THEN "transitive" ELSE "staged_new"
            ELSE "staged_new"

\* The bucket of the if/elif chain; required_by is read on the query branch only.
Bucket(pkg, decl, check_transitive, required_by) ==
    LET normalized == normalize_package_name(pkg)
    IN IF normalized \in decl.core THEN "core"
       ELSE IF normalized \in decl.gpu THEN "gpu"
       ELSE IF normalized \in decl.staged THEN "staged"
       ELSE IF check_transitive
            THEN IF required_by # <<>> THEN "transitive" ELSE "staged_new"
            ELSE "staged_new"

\* Mutant of Place: the bucket is assigned a new dict holding the package.
Place_overwrite(cats, bucket, pkg, version) ==
    [cats EXCEPT ![bucket] = <<[name |-> pkg, version |-> version]>>]

\* categories[bucket][pkg] = version
Place(cats, bucket, pkg, version) ==
    [cats EXCEPT ![bucket] = DictSet(@, pkg, version)]

(***************************************************************************)
(* generate_report and generate_snapshot.  A line is a record; the date is *)
(* not modelled, the cluster and version labels are the defaults.          *)
(***************************************************************************)
Line(kind, label, count, name, version) ==
    [kind |-> kind, label |-> label, count |-> count, name |-> name,
     version |-> version]

Section(label, bucket, note, none) ==
    <<Line("heading", label, Len(bucket), <<>>, <<>>)>>
    \o (IF bucket # <<>>
        THEN (IF note # "" THEN <<Line("text", note, 0, <<>>, <<>>)>> ELSE <<>>)
             \o [i \in 1..Len(bucket) |->
                    Line("entry", label, 0, sorted(bucket)[i].name,
                         sorted(bucket)[i].version)]
        ELSE <<Line("text", none, 0, <<>>, <<>>)>>)
    \o <<Line("blank", "", 0, <<>>, <<>>)>>

generate_report(cats) ==
    <<Line("text", "=== Python Package Sync Report ===", 0, <<>>, <<>>),
      Line("text", "Cluster: unknown", 0, <<>>, <<>>),
      Line("text", "Bioc Version: unknown", 0, <<>>, <<>>),
      Line("text", "Date", 0, <<>>, <<>>),
      Line("blank", "", 0, <<>>, <<>>)>>
    \o Section("CORE PACKAGES", cats.core, "", "(none)")
    \o Section("GPU PACKAGES", cats.gpu, "", "(none)")
    \o Section("STAGED PACKAGES", cats.staged, "", "(none)")
    \o Section("NEW STAGED CANDIDATES", cats.staged_new,
               "These packages are installed but not in pyproject.toml:",
               "(none - all top-level packages are declared)")
    \o <<Line("heading", "TRANSITIVE DEPENDENCIES", Len(cats.transitive), <<>>, <<>>),
         Line("text", "(auto-installed, no action needed)", 0, <<>>, <<>>),
         Line("blank", "", 0, <<>>, <<>>),
         Line("heading", "TOTAL",
              Len(cats.core) + Len(cats.gpu) + Len(cats.staged)
              + Len(cats.staged_new) + Len(cats.transitive), <<>>, <<>>)>>

\* f'{pkg} = "{ver}"'
SnapshotEntry(pkg, ver) == pkg \o <<" ", "=", " ", "\"">> \o ver \o <<"\"">>

SnapshotHeader(n) ==
    <<Line("comment", "# Python package snapshot", 0, <<>>, <<>>),
      Line("comment", "# Cluster: unknown", 0, <<>>, <<>>),
      Line("comment", "# Bioc Version: unknown", 0, <<>>, <<>>),
      Line("comment", "# Date", 0, <<>>, <<>>),
      Line("comment", "# Packages:", n, <<>>, <<>>),
      Line("blank", "", 0, <<>>, <<>>),
      Line("table", "[packages]", 0, <<>>, <<>>)>>

\* Mutant of generate_snapshot: the items are not sorted.
generate_snapshot_unsorted(inst) ==
    SnapshotHeader(Len(inst))
    \o [i \in 1..Len(inst) |->
           Line("entry", "", 0, SnapshotEntry(inst[i].name, inst[i].version), <<>>)]

generate_snapshot(inst) ==
    SnapshotHeader(Len(inst))
    \o [i \in 1..Len(inst) |->
           Line("entry", "", 0,
                SnapshotEntry(sorted(inst)[i].name, sorted(inst)[i].version), <<>>)]

(***************************************************************************)
(* The outcomes of one "pip show".                                         *)
(***************************************************************************)
NameLine == <<"N", "a", "m", "e", ":", " ", "a">>

RequiredByNone == RequiredByPrefix \o <<" ">>

RequiredByOne == RequiredByPrefix \o <<" ", "x">>

RequiredByTwo == RequiredByPrefix \o <<" ", "x", ",", " ", "y">>

NoOutcome == [kind |-> "none", returncode |-> 0, stdout |-> <<>>]

PipOutcomes ==
    {[kind |-> "timeout", returncode |-> 0, stdout |-> <<>>],
     [kind |-> "raise", returncode |-> 0, stdout |-> <<>>],
     [kind |-> "exit", returncode |-> 1, stdout |-> <<>>],
     [kind |-> "exit", returncode |-> 1, stdout |-> <<NameLine, RequiredByOne>>],
     [kind |-> "exit", returncode |-> 0, stdout |-> <<NameLine>>],
     [kind |-> "exit", returncode |-> 0, stdout |-> <<NameLine, RequiredByNone>>],
     [kind |-> "exit", returncode |-> 0, stdout |-> <<NameLine, RequiredByOne>>],
     [kind |-> "exit", returncode |-> 0, stdout |-> <<NameLine, RequiredByTwo>>]}

\* A query that failed: a timeout, an exception, a non-zero return code, or an
\* output without a "Required-by:" line.
PipFailed(outcome) ==
    \/ outcome.kind \in {"timeout", "raise"}
    \/ outcome.returncode # 0
    \/ \A i \in 1..Len(outcome.stdout) :
          ~startswith(outcome.stdout[i], RequiredByPrefix)

(***************************************************************************)
(* main(), one action per step.                                            *)
(***************************************************************************)
NotWritten == <<Line("absent", "", 0, <<>>, <<>>)>>

InputVars ==
    <<freeze_ok, freeze_lines, pyproject_ok, pyproject, arg_output, output_ok, arg_skip>>

PipVars == <<pip_calls, last_outcome, last_required_by, all_failed>>

\* The state after argument parsing, for given inputs.
Start(fok, lines, pok, project, output, wok, skip) ==
    /\ freeze_ok = fok
    /\ freeze_lines = lines
    /\ pyproject_ok = pok
    /\ pyproject = project
    /\ arg_output = output
    /\ output_ok = wok
    /\ arg_skip = skip
    /\ pc = "open_freeze"
    /\ line_no = 1
    /\ installed = <<>>
    /\ declared = [core |-> {}, gpu |-> {}, staged |-> {}]
    /\ cat_no = 1
    /\ categories = NoCategories
    /\ opened = <<>>
    /\ pip_calls = <<>>
    /\ last_outcome = NoOutcome
    /\ last_required_by = <<>>
    /\ all_failed = TRUE
    /\ stdout = <<>>
    /\ snapshot_file = NotWritten
    /\ exit_status = -1
    /\ raised = "none"

\* open(args.freeze) succeeds
OpenFreeze ==
    /\ pc = "open_freeze"
    /\ freeze_ok
    /\ opened' = Append(opened, "freeze")
    /\ pc' = "read_lines"
    /\ UNCHANGED <<InputVars, PipVars, line_no, installed, declared, cat_no,
                   categories, stdout, snapshot_file, exit_status, raised>>

\* open(args.freeze) raises: the exception is not caught, the process ends
\* with a traceback and status 1
OpenFreezeFails ==
    /\ pc = "open_freeze"
    /\ ~freeze_ok
    /\ opened' = Append(opened, "freeze")
    /\ pc' = "error"
    /\ exit_status' = 1
    /\ raised' = "open_freeze"
    /\ UNCHANGED <<InputVars, PipVars, line_no, installed, declared, cat_no,
                   categories, stdout, snapshot_file>>

\* one iteration of "for line in f"
ReadLine ==
    /\ pc = "read_lines"
    /\ line_no <= Len(freeze_lines)
    /\ LET parsed == parse_freeze_line(freeze_lines[line_no])
       IN installed' = IF parsed.ok
                       THEN DictSet(installed, parsed.name, parsed.version)
                       ELSE installed
    /\ line_no' = line_no + 1
    /\ UNCHANGED <<InputVars, PipVars, pc, declared, cat_no, categories, opened,
                   stdout, snapshot_file, exit_status, raised>>

\* load_pyproject and get_declared_packages, once the listing is exhausted
LoadPyproject ==
    /\ pc = "read_lines"
    /\ line_no > Len(freeze_lines)
    /\ pyproject_ok
    /\ opened' = Append(opened, "pyproject")
    /\ declared' = get_declared_packages(pyproject)
    /\ pc' = "categorize"
    /\ UNCHANGED <<InputVars, PipVars, line_no, installed, cat_no, categories,
                   stdout, snapshot_file, exit_status, raised>>

\* Mutant of LoadPyprojectFails: the error is swallowed and nothing is declared.
LoadPyprojectFails_swallowed ==
    /\ pc = "read_lines"
    /\ line_no > Len(freeze_lines)
    /\ ~pyproject_ok
    /\ opened' = Append(opened, "pyproject")
    /\ pc' = "categorize"
    /\ UNCHANGED <<InputVars, PipVars, line_no, installed, declared, cat_no,
                   categories, stdout, snapshot_file, exit_status, raised>>

LoadPyprojectFails ==
    /\ pc = "read_lines"
    /\ line_no > Len(freeze_lines)
    /\ ~pyproject_ok
    /\ opened' = Append(opened, "pyproject")
    /\ pc' = "error"
    /\ exit_status' = 1
    /\ raised' = "load_pyproject"
    /\ UNCHANGED <<InputVars, PipVars, line_no, installed, declared, cat_no,
                   categories, stdout, snapshot_file>>

\* one iteration of "for pkg, version in installed.items()"
CategorizeStep ==
    /\ pc = "categorize"
    /\ cat_no <= Len(installed)
    /\ LET pkg == installed[cat_no].name
           version == installed[cat_no].version
       IN \E outcome \in PipOutcomes :
            LET query == NeedsQuery(pkg, declared, ~arg_skip)
                required_by == IF query THEN get_required_by(outcome) ELSE <<>>
                bucket == Bucket(pkg, declared, ~arg_skip, required_by)
            IN /\ categories' = Place(categories, bucket, pkg, version)
               /\ pip_calls' = IF query THEN Append(pip_calls, pkg) ELSE pip_calls
               /\ last_outcome' = IF query THEN outcome ELSE last_outcome
               /\ last_required_by' = IF query THEN required_by ELSE last_required_by
               /\ all_failed' = (all_failed /\ (query => PipFailed(outcome)))
    /\ cat_no' = cat_no + 1
    /\ UNCHANGED <<InputVars, pc, line_no, installed, declared, opened, stdout,
                   snapshot_file, exit_status, raised>>

\* print(generate_report(...))
PrintReport ==
    /\ pc = "categorize"
    /\ cat_no > Len(installed)
    /\ stdout' = stdout \o generate_report(categories)
    /\ pc' = "snapshot"
    /\ UNCHANGED <<InputVars, PipVars, line_no, installed, declared, cat_no,
                   categories, opened, snapshot_file, exit_status, raised>>

\* "if args.output": write the snapshot and say so
WriteSnapshot ==
    /\ pc = "snapshot"
    /\ arg_output
    /\ output_ok
    /\ snapshot_file' = generate_snapshot(installed)
    /\ stdout' = Append(stdout, Line("text", "Snapshot saved", 0, <<>>, <<>>))
    /\ pc' = "exit"
    /\ UNCHANGED <<InputVars, PipVars, line_no, installed, declared, cat_no,
                   categories, opened, exit_status, raised>>

\* args.output.write_text raises: the exception is not caught, the process ends
\* with a traceback and status 1, the report already printed
WriteSnapshotFails ==
    /\ pc = "snapshot"
    /\ arg_output
    /\ ~output_ok
    /\ pc' = "error"
    /\ exit_status' = 1
    /\ raised' = "write_text"
    /\ UNCHANGED <<InputVars, PipVars, line_no, installed, declared, cat_no,
                   categories, opened, stdout, snapshot_file>>

SkipSnapshot ==
    /\ pc = "snapshot"
    /\ ~arg_output
    /\ pc' = "exit"
    /\ UNCHANGED <<InputVars, PipVars, line_no, installed, declared, cat_no,
                   categories, opened, stdout, snapshot_file, exit_status, raised>>

\* Mutant of ExitCode: transitive packages ask for a review too.
ExitCode_any_undeclared(cats) ==
    IF cats.staged_new # <<>> \/ cats.transitive # <<>> THEN 1 ELSE 0

\* the status of sys.exit
ExitCode(cats) == IF cats.staged_new # <<>> THEN 1 ELSE 0

Exit ==
    /\ pc = "exit"
    /\ exit_status' = ExitCode(categories)
    /\ pc' = "done"
    /\ UNCHANGED <<InputVars, PipVars, line_no, installed, declared, cat_no,
                   categories, opened, stdout, snapshot_file, raised>>

Next ==
    \/ OpenFreeze
    \/ OpenFreezeFails
    \/ ReadLine
    \/ LoadPyproject
    \/ LoadPyprojectFails
    \/ CategorizeStep
    \/ PrintReport
    \/ WriteSnapshot
    \/ WriteSnapshotFails
    \/ SkipSnapshot
    \/ Exit

(***************************************************************************)
(* Input families.                                                         *)
(***************************************************************************)
RECURSIVE SeqsUpTo(_, _)
SeqsUpTo(S, n) ==
    IF n = 0 THEN {<<>>}
    ELSE LET shorter == SeqsUpTo(S, n - 1)
         IN shorter \cup {Append(s, x) : s \in shorter, x \in S}

Project(core, gpu, staged) == [dependencies |-> core, gpu |-> gpu, staged |-> staged]

\* Listing lines of the pipeline family: a==1, B==2, a_B==3, a.b==1, # c
MainLines ==
    {<<"a", "=", "=", "1", "\n">>,
     <<"B", "=", "=", "2", "\n">>,
     <<"a", "_", "B", "=", "=", "3", "\n">>,
     <<"#", " ", "c", "\n">>}

\* Manifests of the pipeline family, with names declared in several lists.
MainProjects ==
    {Project(<<>>, <<>>, <<>>),
     Project(<<<<"a">>>>, <<<<"a">>, <<"B", ">", "=", "1">>>>,
             <<<<"a">>, <<"b">>>>),
     Project(<<>>, <<<<"b", ">", "=", "1">>>>, <<<<"b">>, <<"A", ".", "B">>>>),
     Project(<<<<"#", "#", "#">>>>, <<>>, <<<<"a", "_", "b", "[", "x", "]", ">", "=", "1">>>>)}

\* Whether --output is given and, if it is, whether the path can be written.
OutputRuns == {<<FALSE, TRUE>>, <<TRUE, TRUE>>, <<TRUE, FALSE>>}

Init ==
    \E fok \in BOOLEAN, pok \in BOOLEAN, out \in OutputRuns, skip \in BOOLEAN :
      \E lines \in SeqsUpTo(MainLines, MaxLines), project \in MainProjects :
        Start(fok, lines, pok, project, out[1], out[2], skip)

Spec == Init /\ [][Next]_vars

\* The other families fix the flags to five runs: both files read with and
\* without --output and --skip-transitive-check, each file missing, and the
\* output path not writable.
\* <<freeze_ok, pyproject_ok, output, output_ok, skip>>
FlagRuns ==
    {<<TRUE, TRUE, TRUE, TRUE, FALSE>>, <<TRUE, TRUE, FALSE, TRUE, TRUE>>,
     <<FALSE, TRUE, FALSE, TRUE, FALSE>>, <<TRUE, FALSE, TRUE, TRUE, FALSE>>,
     <<TRUE, TRUE, TRUE, FALSE, FALSE>>}

\* Listing lines of every shape parse_freeze_line tells apart: a comment, an
\* empty line, a blank line, -e ./a, -e a==1, a==1, A_b==2 with blanks around
\* it, a.B==3, a===1, a (no ==), ==1 (no name).
AllLines ==
    {<<"#", " ", "c", "\n">>,
     <<"\n">>,
     <<" ", "\n">>,
     <<"-", "e", " ", ".", "/", "a", "\n">>,
     <<"-", "e", " ", "a", "=", "=", "1", "\n">>,
     <<"a", "=", "=", "1", "\n">>,
     <<" ", "A", "_", "b", "=", "=", "2", " ", "\n">>,
     <<"a", ".", "B", "=", "=", "3", "\n">>,
     <<"a", "=", "=", "=", "1", "\n">>,
     <<"a", "\n">>,
     <<"=", "=", "1">>}

OneProject == Project(<<<<"a">>>>, <<>>, <<<<"a", "-", "b">>>>)

InitListing ==
    \E f \in FlagRuns, lines \in SeqsUpTo(AllLines, MaxLines) :
        Start(f[1], lines, f[2], OneProject, f[3], f[4], f[5])

SpecListing == InitListing /\ [][Next]_vars

\* Manifest entries: a, A_b[x]>=1, a.b, ### (no name), each in one of the
\* three lists; a manifest is a sequence of entries, split into its lists.
AllRequirements ==
    {<<"a">>,
     <<"A", "_", "b", "[", "x", "]", ">", "=", "1">>,
     <<"a", ".", "b">>,
     <<"#", "#", "#">>}

RECURSIVE ListOf(_, _)
ListOf(entries, list) ==
    IF entries = <<>> THEN <<>>
    ELSE (IF Head(entries).list = list THEN <<Head(entries).req>> ELSE <<>>)
         \o ListOf(Tail(entries), list)

ProjectOf(entries) ==
    Project(ListOf(entries, "core"), ListOf(entries, "gpu"), ListOf(entries, "staged"))

AllEntries == [list : {"core", "gpu", "staged"}, req : AllRequirements]

TwoLines == <<<<"a", "=", "=", "1", "\n">>, <<"B", "=", "=", "2", "\n">>>>

InitDeclared ==
    \E f \in FlagRuns, entries \in SeqsUpTo(AllEntries, MaxDeps) :
        Start(f[1], TwoLines, f[2], ProjectOf(entries), f[3], f[4], f[5])

SpecDeclared == InitDeclared /\ [][Next]_vars

\* One package, installed and declared in the core list: its name n is built
\* from letters, digits, "-", "_", "." and starts and ends with a letter or
\* digit; the listing line is n==1, the manifest entry n, n[x], n>=1 or n[x]>=1.
NameChars == {"a", "B", "1", "-", "_", "."}

PackageNames ==
    {n \in SeqsUpTo(NameChars, MaxNameLen) :
        n # <<>> /\ ~IsSeparator(n[1]) /\ ~IsSeparator(n[Len(n)])}

InitNames ==
    \E f \in FlagRuns, n \in PackageNames :
      \E extras \in {<<>>, <<"[", "x", "]">>}, specifier \in {<<>>, <<">", "=", "1">>} :
        Start(f[1], <<n \o <<"=", "=", "1", "\n">>>>, f[2],
              Project(<<n \o extras \o specifier>>, <<>>, <<>>), f[3], f[4], f[5])

SpecNames == InitNames /\ [][Next]_vars

(***************************************************************************)
(* Properties.                                                             *)
(***************************************************************************)
BucketNames == {"core", "gpu", "staged", "staged_new", "transitive"}

\* categorize_packages has been entered.
Categorizing ==
    \/ pc \in {"categorize", "snapshot", "exit", "done"}
    \/ pc = "error" /\ raised = "write_text"

\* The items categorize_packages has been through.
Categorized == SubSeq(installed, 1, cat_no - 1)

\* C1: the five buckets are pairwise disjoint, the keys of their union are the
\* keys of the installed packages categorized so far (all of them once the loop
\* has ended), and every key keeps the version it has in the installed mapping.
C1_Partition ==
    Categorizing =>
      /\ \A b1 \in BucketNames, b2 \in BucketNames :
           b1 # b2 => Keys(categories[b1]) \cap Keys(categories[b2]) = {}
      /\ UNION {Keys(categories[b]) : b \in BucketNames} = Keys(Categorized)
      /\ \A b \in BucketNames :
           /\ Items(categories[b]) \subseteq Items(Categorized)
           /\ Cardinality(Keys(categories[b])) = Len(categories[b])
      /\ (pc # "categorize" => Categorized = installed)

C1_Witness ==
    /\ pc = "done"
    /\ Len(installed) = 3
    /\ categories.staged # <<>>
    /\ categories.staged_new # <<>>
    /\ categories.transitive # <<>>

\* C2: a categorized package whose normalized name is in core is in bucket
\* core; one in gpu and not in core is in bucket gpu; one in staged only is in
\* bucket staged; a package in any declared set is in neither transitive nor
\* staged_new.
C2_Priority ==
    Categorizing =>
      \A i \in 1..Len(Categorized) :
        LET pkg == Categorized[i].name
            n == normalize_package_name(pkg)
        IN /\ n \in declared.core => pkg \in Keys(categories.core)
           /\ (n \notin declared.core /\ n \in declared.gpu)
                => pkg \in Keys(categories.gpu)
           /\ (n \notin declared.core /\ n \notin declared.gpu /\ n \in declared.staged)
                => pkg \in Keys(categories.staged)
           /\ n \in declared.core \cup declared.gpu \cup declared.staged
                => pkg \notin Keys(categories.transitive) \cup Keys(categories.staged_new)

C2_Witness ==
    /\ pc = "done"
    /\ \E pkg \in Keys(categories.core) :
         pkg \in declared.gpu \cap declared.staged
    /\ \E pkg \in Keys(categories.gpu) : pkg \in declared.staged

\* What C3 says of a run that has ended: status 1 exactly when staged_new is
\* not empty, status 0 exactly when it is empty, the report printed and, with
\* --output, the snapshot written.
ExitsByStagedNew ==
    /\ exit_status = 1 <=> categories.staged_new # <<>>
    /\ exit_status = 0 <=> categories.staged_new = <<>>
    /\ SubSeq(stdout, 1, Len(generate_report(categories)))
         = generate_report(categories)
    /\ arg_output => snapshot_file # NotWritten

BothRead == opened = <<"freeze", "pyproject">> /\ pyproject_ok

C4_FailOpen ==
    /\ (last_outcome.kind # "none" /\ PipFailed(last_outcome))
         => (last_required_by = <<>> /\ (pc = "error" => raised = "write_text"))
    /\ (Categorizing /\ all_failed) =>
         /\ categories.transitive = <<>>
         /\ \A i \in 1..Len(Categorized) :
              normalize_package_name(Categorized[i].name)
                  \notin declared.core \cup declared.gpu \cup declared.staged
                => Categorized[i] \in Items(categories.staged_new)

C4_Witness ==
    /\ pc = "done"
    /\ all_failed
    /\ Len(pip_calls) >= 2
    /\ last_outcome.returncode # 0
    /\ last_outcome.stdout # <<>>
    /\ Len(categories.staged_new) >= 2

\* C5: a package that is installed under a name made of letters, digits, "-",
\* "_" and "." and declared in the core list under the same name (with or
\* without extras and a version specifier) has the same key in the installed
\* mapping and in the core set, and is put in bucket core, not in staged_new
\* or transitive.
C5_NameConsistency ==
    (Categorizing /\ pc # "categorize") =>
      /\ Keys(installed) = declared.core
      /\ Keys(categories.core) = Keys(installed)
      /\ categories.staged_new = <<>>
      /\ categories.transitive = <<>>

\* C6 as stated: the three declared sets are pairwise disjoint and none holds
\* the empty name.
C6_DisjointSets ==
    Categorizing =>
      /\ declared.core \cap declared.gpu = {}
      /\ declared.core \cap declared.staged = {}
      /\ declared.gpu \cap declared.staged = {}
      /\ <<>> \notin declared.core \cup declared.gpu \cup declared.staged

ListNames == [core |-> "dependencies", gpu |-> "gpu", staged |-> "staged"]

\* C6 amended: none of the three declared sets holds the empty name, and each
\* set holds exactly the names extracted from the entries of its own list that
\* have a name; the sets need not be disjoint.
C6_NamedEntries ==
    Categorizing =>
      \A set \in {"core", "gpu", "staged"} :
        LET list == pyproject[ListNames[set]]
        IN /\ <<>> \notin declared[set]
           /\ \A i \in 1..Len(list) :
                LeadingName(strip(RemoveExtras(list[i]))) # <<>>
                  => parse_requirement(list[i]) \in declared[set]
           /\ \A n \in declared[set] :
                \E i \in 1..Len(list) : parse_requirement(list[i]) = n

C6_Witness ==
    /\ Categorizing
    /\ declared.core \cap declared.staged # {}
    /\ \E i \in 1..Len(pyproject.gpu) : parse_requirement(pyproject.gpu[i]) = <<>>

\* The listing lines main() has been through.
LinesRead == SubSeq(freeze_lines, 1, line_no - 1)

\* A line that makes an entry: trimmed, it is not empty, starts with neither
\* "#" nor "-", and holds "==".
MakesEntry(raw) ==
    LET t == strip(raw)
    IN /\ t # <<>>
       /\ t[1] \notin {"#", "-"}
       /\ \E i \in 1..(Len(t) - 1) : t[i] = "=" /\ t[i + 1] = "="

\* The place of the first "==" of a trimmed line.
FirstEq(t) ==
    CHOOSE i \in 1..(Len(t) - 1) :
        /\ t[i] = "=" /\ t[i + 1] = "="
        /\ \A j \in 1..(i - 1) : ~(t[j] = "=" /\ t[j + 1] = "=")

EntryKey(raw) ==
    LET t == strip(raw) IN normalize_package_name(SubSeq(t, 1, FirstEq(t) - 1))

EntryValue(raw) ==
    LET t == strip(raw) IN SubSeq(t, FirstEq(t) + 2, Len(t))

\* C7: after any number of listing lines, the installed mapping has a key
\* exactly for the lines read that make an entry, the key being the normalized
\* text before the first "==", and its value is the text after the first "=="
\* of the last line read that yields this key; no line ends the run.
C7_Listing ==
    /\ pc # "open_freeze" /\ freeze_ok =>
         /\ Keys(installed) =
              {EntryKey(LinesRead[i]) :
                 i \in {j \in 1..Len(LinesRead) : MakesEntry(LinesRead[j])}}
         /\ Cardinality(Keys(installed)) = Len(installed)
         /\ \A e \in Items(installed) :
              \E i \in 1..Len(LinesRead) :
                /\ MakesEntry(LinesRead[i])
                /\ EntryKey(LinesRead[i]) = e.name
                /\ EntryValue(LinesRead[i]) = e.version
                /\ \A j \in (i + 1)..Len(LinesRead) :
                     MakesEntry(LinesRead[j]) => EntryKey(LinesRead[j]) # e.name
    /\ (pc = "error" /\ freeze_ok) =>
         (line_no > Len(freeze_lines) /\ raised \in {"load_pyproject", "write_text"})

C7_Witness ==
    /\ pc = "done"
    /\ Len(freeze_lines) = 3
    /\ MakesEntry(freeze_lines[1])
    /\ startswith(freeze_lines[2], <<"-">>)
    /\ MakesEntry(freeze_lines[3])
    /\ EntryKey(freeze_lines[1]) = EntryKey(freeze_lines[3])
    /\ EntryValue(freeze_lines[1]) # EntryValue(freeze_lines[3])
    /\ freeze_lines[1] # strip(freeze_lines[1])
    /\ Len(installed) = 1

\* The lines of a snapshot after its seven header lines.
SnapshotBody == SubSeq(snapshot_file, 8, Len(snapshot_file))

\* C8: a snapshot is written only with --output; when it is written it is the
\* five comment lines (the fifth with the number of installed packages), an
\* empty line, the line [packages], and then one line name = "version" for
\* every installed package, whatever its bucket, the i-th line being that of
\* the package with exactly i - 1 smaller names.
C8_Snapshot ==
    /\ snapshot_file # NotWritten => (arg_output /\ output_ok /\ pc \in {"exit", "done"})
    /\ (pc \in {"exit", "done"} /\ arg_output) =>
         /\ Len(snapshot_file) = 7 + Len(installed)
         /\ \A i \in 1..5 : snapshot_file[i].kind = "comment"
         /\ snapshot_file[5].label = "# Packages:"
         /\ snapshot_file[5].count = Len(installed)
         /\ snapshot_file[6].kind = "blank"
         /\ snapshot_file[7].label = "[packages]"
         /\ \A i \in 1..Len(SnapshotBody) :
              \E e \in Items(installed) :
                /\ SnapshotBody[i].name =
                     e.name \o <<" ", "=", " ", "\"">> \o e.version \o <<"\"">>
                /\ Cardinality({o \in Items(installed) : StrLess(o.name, e.name)})
                     = i - 1

C8_Witness ==
    /\ pc = "done"
    /\ arg_output
    /\ Len(installed) = 3
    /\ StrLess(installed[2].name, installed[1].name)
    /\ categories.core # <<>>
    /\ categories.transitive # <<>>

\* The names of the packages of a sequence of items that are in no declared set.
RECURSIVE Undeclared(_)
Undeclared(items) ==
    IF items = <<>> THEN <<>>
    ELSE (IF normalize_package_name(Head(items).name)
               \in declared.core \cup declared.gpu \cup declared.staged
          THEN <<>> ELSE <<Head(items).name>>)
         \o Undeclared(Tail(items))

\* C9: the packages pip was queried for are, in order and once each, the
\* categorized packages that are in no declared set when transitive checking
\* is enabled, and none at all with --skip-transitive-check or before the
\* categorization.
C9_Queries ==
    /\ Categorizing =>
         pip_calls = IF arg_skip THEN <<>> ELSE Undeclared(Categorized)
    /\ ~Categorizing => pip_calls = <<>>

C9_Witness ==
    /\ pc = "done"
    /\ Len(pip_calls) = 2
    /\ Len(installed) = 3
    /\ StrLess(pip_calls[2], pip_calls[1])
    /\ PipFailed(last_outcome)

\* C10: with the listing or the manifest missing, no query is made, nothing is
\* printed and no snapshot is written; with the listing missing no line is read
\* either; the run is in error only after the open that fails, with status 1,
\* and no file is opened twice.
C10_MissingInput ==
    /\ (~freeze_ok \/ ~pyproject_ok) =>
         /\ ~Categorizing
         /\ pip_calls = <<>>
         /\ stdout = <<>>
         /\ snapshot_file = NotWritten
         /\ categories = NoCategories
    /\ ~freeze_ok =>
         /\ pc \in {"open_freeze", "error"}
         /\ installed = <<>>
         /\ line_no = 1
    /\ (pc = "error" /\ raised # "write_text") =>
         /\ exit_status = 1
         /\ \/ opened = <<"freeze">> /\ ~freeze_ok /\ raised = "open_freeze"
            \/ /\ opened = <<"freeze", "pyproject">>
               /\ freeze_ok /\ ~pyproject_ok /\ raised = "load_pyproject"
    /\ Len(opened) <= 2

C10_Witness ==
    /\ pc = "error"
    /\ ~pyproject_ok
    /\ Len(installed) >= 2

====
